---------------------------- MODULE Spec2Model ----------------------------
(***************************************************************************)
(* wlinflate: the wordlist expansion engine (src/wordlist.rs) and the CLI  *)
(* write loop (src/main.rs).                                               *)
(*                                                                         *)
(* A string is a sequence of bytes; a byte is a one-character string, and  *)
(* BadByte stands for a byte that is not valid UTF-8 (0xFF).  The input    *)
(* file is a sequence of bytes; the reader is an offset into it.           *)
(***************************************************************************)
EXTENDS Naturals, Sequences, FiniteSets, Bags, TLC

VARIABLES
    args,        \* main's Args: the four options as given, each None or Some
    file,        \* content of the wordlist file at `path`
    pos,         \* reader: number of bytes already consumed
    base_count,  \* Wordlist.base_count
    total_count, \* Wordlist.total_count
    prepend,     \* Wordlist.prepend
    append,      \* Wordlist.append
    swap,        \* Wordlist.swap
    extensions,  \* Wordlist.extensions
    word_perms,  \* Wordlist.word_perms; each entry carries the number of the
                 \* input line it was derived from (ln, not in the program)
    ret,         \* what the last call of next() returned
    out,         \* bytes written by main's loop
    count,       \* main's count
    pc,          \* main: "loop" while iterating, "done" after the flush
    extra,       \* calls of next() made by a caller after the first None
    rd,          \* what the last next() did with the reader:
                 \* "none" (no read), "line", "eof", "err"; "new" before it
    lineno,      \* number of lines consumed from the reader so far
    base_word,   \* the local base_word of the last next() that read a line
    expanded,    \* word_perms as the stages of that next() left it
    produced     \* every entry returned by next() so far, in order

vars == <<args, file, pos, base_count, total_count, prepend, append, swap,
          extensions, word_perms, ret, out, count, pc, extra, rd, lineno,
          base_word, expanded, produced>>

config == <<args, file, base_count, total_count, prepend, append, swap, extensions>>

-----------------------------------------------------------------------------
(* Bounds of the model *)

MaxLines == 2
MaxItems == 1
MaxSwap == 2
WideItems == 3
MaxExtra == 2
MaxRaw == 2

-----------------------------------------------------------------------------
(* Bytes and strings *)

LF == "\n"
CR == "\r"
COMMA == ","
BadByte == "0xFF"
SWAP == <<"{", "S", "W", "A", "P", "}">>

None == [some |-> FALSE]
Some(e) == [some |-> TRUE, val |-> e]

ends_with(s, c) == Len(s) > 0 /\ s[Len(s)] = c

pop(s) == SubSeq(s, 1, Len(s) - 1)

starts_with(s, pat) == Len(s) >= Len(pat) /\ SubSeq(s, 1, Len(pat)) = pat

contains(s, pat) ==
    \E i \in 1..(Len(s) + 1) : starts_with(SubSeq(s, i, Len(s)), pat)

\* str::replacen(.., 1): the first match only
RECURSIVE replace_first(_, _, _)
replace_first(s, pat, to) ==
    IF s = <<>> THEN <<>>
    ELSE IF starts_with(s, pat)
         THEN to \o SubSeq(s, Len(pat) + 1, Len(s))
         ELSE <<s[1]>> \o replace_first(Tail(s), pat, to)

\* str::replace: the non-overlapping matches, found left to right
RECURSIVE replace(_, _, _)
replace(s, pat, to) ==
    IF s = <<>> THEN <<>>
    ELSE IF starts_with(s, pat)
         THEN to \o replace(SubSeq(s, Len(pat) + 1, Len(s)), pat, to)
         ELSE <<s[1]>> \o replace(Tail(s), pat, to)

\* split(",") with the empty segments filtered out
RECURSIVE split_nonempty(_, _)
split_nonempty(s, sep) ==
    IF \A i \in 1..Len(s) : s[i] # sep THEN (IF s = <<>> THEN <<>> ELSE <<s>>)
    ELSE LET k == CHOOSE i \in 1..Len(s) :
                      s[i] = sep /\ \A j \in 1..(i - 1) : s[j] # sep
         IN (IF k = 1 THEN <<>> ELSE <<SubSeq(s, 1, k - 1)>>)
            \o split_nonempty(SubSeq(s, k + 1, Len(s)), sep)

\* str::split(","): one segment more than there are separators
RECURSIVE split(_, _)
split(s, sep) ==
    IF \A i \in 1..Len(s) : s[i] # sep THEN <<s>>
    ELSE LET k == CHOOSE i \in 1..Len(s) :
                      s[i] = sep /\ \A j \in 1..(i - 1) : s[j] # sep
         IN <<SubSeq(s, 1, k - 1)>> \o split(SubSeq(s, k + 1, Len(s)), sep)

valid_utf8(s) == \A i \in 1..Len(s) : s[i] # BadByte

\* trim_newline popping every "\r" before the "\n", not just one
RECURSIVE trim_crs(_)
trim_crs(s) == IF ends_with(s, CR) THEN trim_crs(pop(s)) ELSE s

trim_all_cr(s) == IF ends_with(s, LF) THEN trim_crs(pop(s)) ELSE s

\* trim_newline without its inner test: "\r" is kept
trim_lf_only(s) == IF ends_with(s, LF) THEN pop(s) ELSE s

trim_newline(s) ==
    IF ends_with(s, LF)
    THEN IF ends_with(pop(s), CR) THEN pop(pop(s)) ELSE pop(s)
    ELSE s

\* BufRead::read_until(b'\n'): the bytes from offset p up to and including
\* the first LF, or up to the end of the file
read_until(f, p) ==
    LET rest == SubSeq(f, p + 1, Len(f))
        nl == {i \in 1..Len(rest) : rest[i] = LF}
        n == IF nl = {} THEN Len(rest)
             ELSE CHOOSE i \in nl : \A j \in nl : i <= j
    IN SubSeq(rest, 1, n)

\* BufRead::read_line: the bytes are consumed whether or not they are UTF-8
read_line(f, p) ==
    LET bytes == read_until(f, p)
    IN [ok |-> valid_utf8(bytes), n |-> Len(bytes), line |-> bytes]

\* count_lines without the test of the last byte: every line counts
RECURSIVE count_all_lines_from(_, _)
count_all_lines_from(f, p) ==
    LET line == read_until(f, p)
    IN IF Len(line) > 0 THEN 1 + count_all_lines_from(f, p + Len(line)) ELSE 0

RECURSIVE count_lines_from(_, _)
count_lines_from(f, p) ==
    LET line == read_until(f, p)
    IN IF Len(line) > 0
       THEN (IF line[Len(line)] = LF THEN 1 ELSE 0)
            + count_lines_from(f, p + Len(line))
       ELSE 0

count_lines(f) == count_lines_from(f, 0)

parse_list(opt) == IF opt.some THEN split(opt.val, COMMA) ELSE <<>>

-----------------------------------------------------------------------------
(* The stages of Wordlist::next *)

Entry(w, ln) == [w |-> w, ln |-> ln]

\* SwapStage passing a word through when there is nothing to swap in
SwapStagePassThrough(q, bw, ln, sw) ==
    IF contains(bw, SWAP) /\ sw # <<>>
    THEN q \o [k \in 1..Len(sw) |-> Entry(replace(bw, SWAP, sw[k]), ln)]
    ELSE Append(q, Entry(bw, ln))

SwapStage(q, bw, ln, sw) ==
    IF contains(bw, SWAP)
    THEN q \o [k \in 1..Len(sw) |-> Entry(replace(bw, SWAP, sw[k]), ln)]
    ELSE Append(q, Entry(bw, ln))

\* PrependEntry with the arguments of format! exchanged
PrependEntrySwapped(p, e) == Entry(e.w \o p, e.ln)

PrependEntry(p, e) == Entry(p \o e.w, e.ln)

SuffixEntry(a, e) == Entry(e.w \o a, e.ln)

Derive(kind, s, e) == IF kind = "pre" THEN PrependEntry(s, e) ELSE SuffixEntry(s, e)

\* InnerLoop deriving from the back of the queue instead of word_perms[i]
RECURSIVE InnerLoopBack(_, _, _, _, _)
InnerLoopBack(q, i, list, j, kind) ==
    IF j > Len(list) \/ i > Len(q) THEN q
    ELSE InnerLoopBack(Append(q, Derive(kind, list[j], q[Len(q)])), i, list, j + 1, kind)

\* for s in list { word_perms.push_back(format!(.., word_perms[i])) };
\* word_perms[i] is in bounds, since the queue only grows
RECURSIVE InnerLoop(_, _, _, _, _)
InnerLoop(q, i, list, j, kind) ==
    IF j > Len(list) \/ i > Len(q) THEN q
    ELSE InnerLoop(Append(q, Derive(kind, list[j], q[i])), i, list, j + 1, kind)

\* OuterLoop over 0..=n: it goes on to the first entry the stage pushed
RECURSIVE OuterLoopInclusive(_, _, _, _, _)
OuterLoopInclusive(q, i, n, list, kind) ==
    IF i > n + 1 \/ i > Len(q) THEN q
    ELSE OuterLoopInclusive(InnerLoop(q, i, list, 1, kind), i + 1, n, list, kind)

\* for i in 0..n { ... }, n being word_perms.len() when the loop starts
RECURSIVE OuterLoop(_, _, _, _, _)
OuterLoop(q, i, n, list, kind) ==
    IF i > n \/ i > Len(q) THEN q
    ELSE OuterLoop(InnerLoop(q, i, list, 1, kind), i + 1, n, list, kind)

\* PrependStage with the range 1..len in place of 0..len
PrependStageFromSecond(q, list) == OuterLoop(q, 2, Len(q), list, "pre")

PrependStage(q, list) == OuterLoop(q, 1, Len(q), list, "pre")

AppendStage(q, list) == OuterLoop(q, 1, Len(q), list, "post")

\* ExtensionStage left out
ExtensionStageSkipped(q, list) == q

ExtensionStage(q, list) == OuterLoop(q, 1, Len(q), list, "post")

\* Stages with the append loop placed before the prepend loop
StagesAppendFirst(q, bw, ln) ==
    ExtensionStage(
        PrependStage(
            AppendStage(SwapStage(q, bw, ln, swap), append),
            prepend),
        extensions)

Stages(q, bw, ln) ==
    ExtensionStage(
        AppendStage(
            PrependStage(SwapStage(q, bw, ln, swap), prepend),
            append),
        extensions)

\* NeedsRead refilling while one entry is still queued
NeedsReadEarly(q) == Len(q) <= 1

\* NeedsRead without the test of the queue
NeedsReadAlways(q) == TRUE

NeedsRead(q) == q = <<>>

\* AtEof without the test of n
AtEofNever(r) == FALSE

\* Ok(n) with n = 0: read_line found nothing left to read
AtEof(r) == r.n = 0

pop_front(q) == IF q = <<>> THEN None ELSE Some(q[1])

\* rest_front after front().cloned(): nothing is removed
rest_kept(q) == q

\* rest_front after drain(..).next(): the whole queue is gone
rest_drained(q) == <<>>

rest_front(q) == IF q = <<>> THEN <<>> ELSE Tail(q)

\* The whole of Wordlist::next: the queue, reader offset and result it
\* leaves, with what it did on the way
next_call ==
    IF NeedsRead(word_perms)
    THEN LET r == read_line(file, pos)
         IN IF ~r.ok
            THEN [q |-> word_perms, pos |-> pos + r.n, ret |-> None,
                  rd |-> "err", read |-> 1, bw |-> base_word, ex |-> expanded]
            ELSE IF AtEof(r)
            THEN [q |-> word_perms, pos |-> pos, ret |-> None,
                  rd |-> "eof", read |-> 0, bw |-> base_word, ex |-> expanded]
            ELSE LET bw == trim_newline(r.line)
                     q == Stages(word_perms, bw, lineno + 1)
                 IN [q |-> rest_front(q), pos |-> pos + r.n,
                     ret |-> pop_front(q), rd |-> "line", read |-> 1,
                     bw |-> bw, ex |-> q]
    ELSE [q |-> rest_front(word_perms), pos |-> pos,
          ret |-> pop_front(word_perms), rd |-> "none", read |-> 0,
          bw |-> base_word, ex |-> expanded]

\* Pull with the swap loop written `for s in self.swap.drain(..)`: the
\* list is used up by the first line read
PullDrainingSwap(c) ==
    /\ word_perms' = c.q
    /\ pos' = c.pos
    /\ ret' = c.ret
    /\ rd' = c.rd
    /\ lineno' = lineno + c.read
    /\ base_word' = c.bw
    /\ expanded' = c.ex
    /\ produced' = IF c.ret.some THEN Append(produced, c.ret.val) ELSE produced
    /\ swap' = IF c.rd = "line" THEN <<>> ELSE swap
    /\ UNCHANGED <<args, file, base_count, total_count, prepend, append, extensions>>

\* next() takes &mut self but assigns to reader and word_perms only
Pull(c) ==
    /\ word_perms' = c.q
    /\ pos' = c.pos
    /\ ret' = c.ret
    /\ rd' = c.rd
    /\ lineno' = lineno + c.read
    /\ base_word' = c.bw
    /\ expanded' = c.ex
    /\ produced' = IF c.ret.some THEN Append(produced, c.ret.val) ELSE produced
    /\ UNCHANGED config

-----------------------------------------------------------------------------
(* Inputs *)

Words ==
    { <<>>,
      <<"a">>,
      <<"{", "S", "W", "A", "P", "}", "b", "{", "S", "W", "A", "P", "}">>,
      <<BadByte>> }

WideWords ==
    Words \cup { <<"{", "S", "W", "A", "P">>,
                 <<"a", "{", "S", "W", "A", "P", "}">>,
                 <<"a", CR>> }

Terminators == { <<LF>>, <<CR, LF>> }

\* the files of n lines over the words ws, every line ended by t, the last
\* one possibly not ended at all
RECURSIVE FilesOf(_, _, _)
FilesOf(ws, t, n) ==
    IF n = 0 THEN { <<>> }
    ELSE IF n = 1 THEN { w \o t : w \in ws } \cup (ws \ { <<>> })
    ELSE { w \o t \o f : w \in ws, f \in FilesOf(ws, t, n - 1) }

Files(ws, max) == UNION { FilesOf(ws, t, n) : t \in Terminators, n \in 0..max }

RECURSIVE join(_, _)
join(list, sep) ==
    IF list = <<>> THEN <<>>
    ELSE IF Len(list) = 1 THEN list[1]
    ELSE list[1] \o <<sep>> \o join(Tail(list), sep)

PrependPool == << <<"p">>, <<"q">>, <<>>, <<"p">>, <<"r">> >>
AppendPool == << <<"x">>, <<"y">>, <<"x">>, <<>>, <<"z">> >>
ExtensionPool == << <<".", "t">>, <<"x">>, <<>>, <<".", "t">>, <<"y">> >>
SwapPool == << <<"d">>, <<"e", "{", "S", "W", "A", "P", "}">>, <<>>, <<"d">> >>

\* an option of the command line: absent, or the csv of the first k items
Options(pool, max) ==
    { None } \cup { Some(join(SubSeq(pool, 1, k), COMMA)) : k \in 1..max }

\* an option of the command line given byte by byte
RawBytes == { "p", COMMA }

RECURSIVE RawOf(_)
RawOf(n) ==
    IF n = 0 THEN { <<>> }
    ELSE { Append(s, c) : s \in RawOf(n - 1), c \in RawBytes }

RawOptions(max) ==
    { None } \cup { Some(s) : s \in UNION { RawOf(n) : n \in 0..max } }

-----------------------------------------------------------------------------
(* Wordlist::new, then main up to its loop *)

New(f, p, a, s, x) ==
    /\ args = [prepend |-> p, append |-> a, swap |-> s, extensions |-> x]
    /\ file = f
    /\ prepend = parse_list(p)
    /\ append = parse_list(a)
    /\ extensions = parse_list(x)
    /\ swap = parse_list(s)
    /\ base_count = count_lines(f)
    /\ total_count = count_lines(f)
                     + count_lines(f) * Len(parse_list(p))
                     + count_lines(f) * Len(parse_list(a))
                     + count_lines(f) * Len(parse_list(x))
    /\ pos = 0
    /\ word_perms = <<>>

Start ==
    /\ ret = None
    /\ out = <<>>
    /\ count = 0
    /\ pc = "loop"
    /\ extra = 0
    /\ rd = "new"
    /\ lineno = 0
    /\ base_word = <<>>
    /\ expanded = <<>>
    /\ produced = <<>>

Init ==
    /\ \E f \in Files(Words, MaxLines) :
       \E p \in Options(PrependPool, MaxItems) :
       \E a \in Options(AppendPool, MaxItems) :
       \E s \in Options(SwapPool, MaxItems) :
       \E x \in Options(ExtensionPool, MaxItems) : New(f, p, a, s, x)
    /\ Start

InitWide ==
    /\ \E f \in Files(WideWords, 1) :
       \E p \in Options(PrependPool, WideItems) :
       \E a \in Options(AppendPool, WideItems) :
       \E s \in Options(SwapPool, MaxSwap) :
       \E x \in Options(ExtensionPool, WideItems) : New(f, p, a, s, x)
    /\ Start

InitParse ==
    /\ \E f \in Files(Words, 1) :
       \E p \in RawOptions(MaxRaw) :
       \E a \in Options(AppendPool, MaxItems) :
       \E s \in RawOptions(MaxRaw) :
       \E x \in Options(ExtensionPool, MaxItems) : New(f, p, a, s, x)
    /\ Start

-----------------------------------------------------------------------------
(* main's loop: for word in wl { write word; write "\n"; count += 1 } *)

MainWrite ==
    /\ pc = "loop"
    /\ next_call.ret.some
    /\ Pull(next_call)
    /\ out' = out \o next_call.ret.val.w \o <<LF>>
    /\ count' = count + 1
    /\ UNCHANGED <<pc, extra>>

MainEnd ==
    /\ pc = "loop"
    /\ ~next_call.ret.some
    /\ Pull(next_call)
    /\ pc' = "done"
    /\ UNCHANGED <<out, count, extra>>

\* a caller that holds the engine calls next() again after the first None
ExtraPull ==
    /\ pc = "done"
    /\ extra < MaxExtra
    /\ Pull(next_call)
    /\ extra' = extra + 1
    /\ UNCHANGED <<out, count, pc>>

Next == MainWrite \/ MainEnd \/ ExtraPull

Spec == Init /\ [][Next]_vars

SpecWide == InitWide /\ [][Next]_vars

SpecParse == InitParse /\ [][Next]_vars

-----------------------------------------------------------------------------
(* What the properties below are stated with *)

Ws(q) == [i \in 1..Len(q) |-> q[i].w]

\* the raw lines of a file, terminators included
RECURSIVE FileLines(_, _)
FileLines(f, p) ==
    IF p >= Len(f) THEN <<>>
    ELSE <<read_until(f, p)>> \o FileLines(f, p + Len(read_until(f, p)))

\* a line without its "\n" or "\r\n"
Stripped(line) ==
    LET n == Len(line)
    IN IF n >= 2 /\ line[n - 1] = CR /\ line[n] = LF THEN SubSeq(line, 1, n - 2)
       ELSE IF n >= 1 /\ line[n] = LF THEN SubSeq(line, 1, n - 1)
       ELSE line

\* where the placeholder occurs in a word
Occurrences(w) ==
    {i \in 1..Len(w) : i + 5 <= Len(w) /\ SubSeq(w, i, i + 5) = SWAP}

HasPlaceholder(w) == Occurrences(w) # {}

RECURSIVE Flat(_)
Flat(ss) == IF ss = <<>> THEN <<>> ELSE ss[1] \o Flat(Tail(ss))

\* the word with each occurrence of the placeholder replaced by v
Substituted(w, v) ==
    Flat([i \in 1..Len(w) |->
            IF i \in Occurrences(w) THEN v
            ELSE IF \E o \in Occurrences(w) : o < i /\ i <= o + 5 THEN <<>>
            ELSE <<w[i]>>])

RefSeeds(w, sw) ==
    IF HasPlaceholder(w) THEN [k \in 1..Len(sw) |-> Substituted(w, sw[k])]
    ELSE <<w>>

\* b, then for each entry of b (in order) and each string of list (in order)
\* the entry with the string put before or after it
RefStage(b, list, before) ==
    LET n == Len(b)
        m == Len(list)
    IN [k \in 1..(n * (1 + m)) |->
          IF k <= n THEN b[k]
          ELSE LET i == ((k - n - 1) \div m) + 1
                   j == ((k - n - 1) % m) + 1
               IN IF before THEN list[j] \o b[i] ELSE b[i] \o list[j]]

RefBuffer(seeds) ==
    RefStage(RefStage(RefStage(seeds, prepend, TRUE), append, FALSE),
             extensions, FALSE)

Multiplier == (1 + Len(prepend)) * (1 + Len(append)) * (1 + Len(extensions))

SeedCount(w) == IF HasPlaceholder(w) THEN Len(swap) ELSE 1

BagOfSeq(q) ==
    [s \in {q[i] : i \in 1..Len(q)} |-> Cardinality({i \in 1..Len(q) : q[i] = s})]

\* one element per choice of a seed and of a position (0: none) in each list
Choices(seeds) ==
    (1..Len(seeds)) \X (0..Len(prepend)) \X (0..Len(append)) \X (0..Len(extensions))

Pick(list, k) == IF k = 0 THEN <<>> ELSE list[k]

Combined(seeds, c) ==
    Pick(prepend, c[2]) \o seeds[c[1]] \o Pick(append, c[3]) \o Pick(extensions, c[4])

RefBag(seeds) ==
    [s \in {Combined(seeds, c) : c \in Choices(seeds)} |->
        Cardinality({c \in Choices(seeds) : Combined(seeds, c) = s})]

\* the engine has just read a line and run the stages on it
Expanded == rd = "line"

\* the base word of base_word is still the current one
Current == rd = "line" \/ rd = "none"

-----------------------------------------------------------------------------
(* C1: a pull returns None only when the reader is at the end of the input *)
(* and the buffer is empty; with an unread line left it never returns None *)
(* (stated for the files every line of which the reader reads as UTF-8)    *)
C1_NoneOnlyAtEnd ==
    (valid_utf8(file) /\ rd # "new" /\ ~ret.some) =>
        (pos = Len(file) /\ word_perms = <<>>)

(* C2: pulling until the first None writes the expansions of all the lines *)
(* of the file, in line order, each item followed by one newline           *)
(* (stated for the files every line of which the reader reads as UTF-8)    *)
RefOutput ==
    LET lines == FileLines(file, 0)
    IN Flat([n \in 1..Len(lines) |->
               Flat([k \in 1..Len(RefBuffer(RefSeeds(Stripped(lines[n]), swap))) |->
                       RefBuffer(RefSeeds(Stripped(lines[n]), swap))[k] \o <<LF>>])])

C2_WritesAllLines == (valid_utf8(file) /\ pc = "done") => out = RefOutput

(* C3: the buffer one expansion produces is the seeds, then prepend+seed   *)
(* per seed and prepend string, then entry+append per entry of that buffer *)
(* and append string, then entry+extension likewise; the entries are       *)
(* returned in that order                                                  *)
C3_ExpansionOrder ==
    /\ Expanded => Ws(expanded) = RefBuffer(Ws(SwapStage(<<>>, base_word, lineno, swap)))
    /\ Current =>
         LET k == Len(expanded) - Len(word_perms)
         IN /\ k >= 0
            /\ word_perms = SubSeq(expanded, k + 1, Len(expanded))
            /\ Len(produced) >= k
            /\ SubSeq(produced, Len(produced) - k + 1, Len(produced))
                 = SubSeq(expanded, 1, k)
            /\ ret.some => ret.val = expanded[k]

C3_Witness ==
    /\ rd = "none" /\ word_perms = <<>>
    /\ Len(swap) = 2 /\ HasPlaceholder(base_word)
    /\ Len(prepend) = 2 /\ Len(append) = 2 /\ Len(extensions) = 2
    /\ Len(expanded) = 54

(* C4: every permutation of line N is returned before any permutation of  *)
(* line N+1, so the permutations of one line are contiguous                *)
C4_LineOrder ==
    \A j \in 2..Len(produced) : produced[j - 1].ln <= produced[j].ln

C4_Witness ==
    /\ Len(produced) >= 4
    /\ produced[1].ln = 1 /\ produced[2].ln = 1
    /\ produced[Len(produced)].ln = 2 /\ produced[Len(produced) - 1].ln = 2

(* C5: the permutations of one base word are, as a multiset, the strings   *)
(* p+w+a+e with w a seed, p absent or a prepend string, a absent or an     *)
(* append string, e absent or an extension string, one per choice          *)
C5_Multiset ==
    Expanded => BagOfSeq(Ws(expanded)) = RefBag(RefSeeds(base_word, swap))

C5_Witness ==
    /\ Expanded
    /\ Len(prepend) >= 2 /\ Len(append) >= 2 /\ Len(extensions) >= 2
    /\ \E s \in DOMAIN BagOfSeq(Ws(expanded)) : BagOfSeq(Ws(expanded))[s] >= 2
    /\ \E i \in 1..Len(expanded) : HasPlaceholder(expanded[i].w)

(* C6: a word with the placeholder is not enqueued itself; each swap value *)
(* gives one seed, the word with every occurrence replaced, in list order; *)
(* a word without it is the only seed and the swap list plays no part      *)
C6_SwapStage ==
    Expanded =>
        LET seeds == IF HasPlaceholder(base_word)
                     THEN [k \in 1..Len(swap) |-> Substituted(base_word, swap[k])]
                     ELSE <<base_word>>
        IN /\ Len(expanded) = Len(seeds) * Multiplier
           /\ SubSeq(Ws(expanded), 1, Len(seeds)) = seeds

C6_Witness ==
    /\ Expanded
    /\ Cardinality(Occurrences(base_word)) = 2
    /\ Len(swap) = 2
    /\ expanded[1].w # expanded[2].w

(* C7: a line with the placeholder, the swap list being empty, contributes *)
(* no permutation at all                                                   *)
C7_DroppedLine ==
    swap = <<>> =>
        LET lines == FileLines(file, 0)
            dropped == {n \in 1..Len(lines) : HasPlaceholder(Stripped(lines[n]))}
        IN /\ \A i \in 1..Len(produced) : produced[i].ln \notin dropped
           /\ \A i \in 1..Len(word_perms) : word_perms[i].ln \notin dropped
           /\ (Expanded /\ lineno \in dropped) => (expanded = <<>> /\ ~ret.some)

C7_Witness ==
    /\ Expanded /\ HasPlaceholder(base_word) /\ swap = <<>>
    /\ prepend # <<>> /\ append # <<>> /\ extensions # <<>>
    /\ lineno = 2 /\ Len(produced) > 0

(* C8: with only one of prepend, append, extension non-empty and no swap,  *)
(* a line without the placeholder yields itself and then one copy per list *)
(* string, in list order: 1 + |list| items                                 *)
C8_SingleList ==
    (Expanded /\ swap = <<>> /\ ~HasPlaceholder(base_word)) =>
        /\ (append = <<>> /\ extensions = <<>>) =>
              Ws(expanded) = <<base_word>> \o [k \in 1..Len(prepend) |-> prepend[k] \o base_word]
        /\ (prepend = <<>> /\ extensions = <<>>) =>
              Ws(expanded) = <<base_word>> \o [k \in 1..Len(append) |-> base_word \o append[k]]
        /\ (prepend = <<>> /\ append = <<>>) =>
              Ws(expanded) = <<base_word>> \o [k \in 1..Len(extensions) |-> base_word \o extensions[k]]

C8_Witness ==
    /\ Expanded /\ swap = <<>> /\ base_word = <<"a">>
    /\ Len(prepend) = 3 /\ append = <<>> /\ extensions = <<>>
    /\ Len(expanded) = 4

(* C9: a line yields seeds * (1+|prepend|) * (1+|append|) * (1+|extension|) *)
(* permutations, seeds being 1 without the placeholder and |swap| with it   *)
C9_Count ==
    /\ Expanded => Len(expanded) = SeedCount(base_word) * Multiplier
    /\ Current =>
         Cardinality({i \in 1..Len(produced) : produced[i].ln = lineno})
           + Len(word_perms) = SeedCount(base_word) * Multiplier

C9_Witness ==
    /\ rd = "none" /\ word_perms = <<>>
    /\ ~HasPlaceholder(base_word)
    /\ Len(prepend) = 3 /\ Len(append) = 3 /\ Len(extensions) = 3
    /\ Len(produced) = 64

(* C10: with the four lists empty a line without the placeholder yields    *)
(* one permutation, the line without its terminator                        *)
C10_Identity ==
    (Expanded /\ swap = <<>> /\ prepend = <<>> /\ append = <<>> /\ extensions = <<>>
       /\ ~HasPlaceholder(Stripped(FileLines(file, 0)[lineno]))) =>
        /\ Ws(expanded) = <<Stripped(FileLines(file, 0)[lineno])>>
        /\ ret = Some(Entry(Stripped(FileLines(file, 0)[lineno]), lineno))
        /\ word_perms = <<>>

C10_Witness ==
    /\ Expanded /\ swap = <<>> /\ prepend = <<>> /\ append = <<>> /\ extensions = <<>>
    /\ lineno = 2 /\ base_word = <<>> /\ Len(produced) = 2
    /\ FileLines(file, 0)[2] = <<CR, LF>>

(* C12: the base word is the line read without its "\n" or "\r\n";         *)
(* trim_newline removes one trailing "\n" and one "\r" before it, nothing  *)
(* else; the base word of every line read ends with neither "\n" nor "\r"  *)
C12_NoTerminatorLeft ==
    Expanded =>
        /\ base_word = Stripped(FileLines(file, 0)[lineno])
        /\ ~ends_with(base_word, LF)
        /\ ~ends_with(base_word, CR)

(* C12, amended: the base word is the line read without its "\n" or       *)
(* "\r\n"; it never ends with "\n", and it ends with "\r" only when the    *)
(* line had no "\n" at all or had a second "\r" before its "\r\n"          *)
C12_Stripping ==
    Expanded =>
        LET line == FileLines(file, 0)[lineno]
        IN /\ base_word = Stripped(line)
           /\ Len(line) - Len(base_word) \in
                 {IF ends_with(line, LF) THEN (IF ends_with(pop(line), CR) THEN 2 ELSE 1)
                  ELSE 0}
           /\ ~ends_with(base_word, LF)
           /\ ends_with(base_word, CR) =>
                 (line = base_word \/ line = base_word \o <<CR, LF>>)

C12_Witness ==
    /\ Expanded
    /\ base_word = <<"a", CR>>
    /\ FileLines(file, 0)[lineno] = <<"a", CR, CR, LF>>

(* C13: an absent option gives an empty list; a present one is split on    *)
(* ',' alone: k commas give k+1 segments, empty ones kept, whose join with *)
(* ',' is the option as given                                              *)
Commas(s) == Cardinality({i \in 1..Len(s) : s[i] = COMMA})

ParsedAs(opt, list) ==
    IF ~opt.some THEN list = <<>>
    ELSE /\ Len(list) = Commas(opt.val) + 1
         /\ \A k \in 1..Len(list) : Commas(list[k]) = 0
         /\ join(list, COMMA) = opt.val

C13_Parsing ==
    /\ ParsedAs(args.prepend, prepend)
    /\ ParsedAs(args.append, append)
    /\ ParsedAs(args.swap, swap)
    /\ ParsedAs(args.extensions, extensions)

C13_Witness ==
    /\ pc = "done"
    /\ args.prepend = Some(<<COMMA, COMMA>>) /\ prepend = << <<>>, <<>>, <<>> >>
    /\ args.swap = Some(<<>>) /\ swap = << <<>> >>
    /\ args.append = None /\ append = <<>>
    /\ Len(produced) > 0

(* C14: total_count is at most the number of permutations emitted, for     *)
(* every input and configuration (stated for the files every line of which *)
(* the reader reads as UTF-8)                                              *)
C14_UnderEstimate ==
    (valid_utf8(file) /\ pc = "done") => total_count <= count

(* C14, amended: total_count is at most the number of permutations emitted *)
(* when every line reads as UTF-8 and either the swap list is non-empty or *)
(* no line contains the placeholder                                        *)
C14_UnderEstimateSeeded ==
    (/\ valid_utf8(file)
     /\ pc = "done"
     /\ \/ swap # <<>>
        \/ \A n \in 1..Len(FileLines(file, 0)) :
              ~HasPlaceholder(Stripped(FileLines(file, 0)[n])))
    => total_count <= count

C14_Witness ==
    /\ valid_utf8(file) /\ pc = "done" /\ swap # <<>>
    /\ \E n \in 1..Len(FileLines(file, 0)) :
          HasPlaceholder(Stripped(FileLines(file, 0)[n]))
    /\ total_count >= 4 /\ count > total_count

(* C15: base_count is the number of lines ended by a newline, a last line  *)
(* without one not counted; total_count is base_count times                *)
(* 1 + |prepend| + |append| + |extension|, whatever the swap list          *)
C15_Counts ==
    /\ base_count = Cardinality({i \in 1..Len(file) : file[i] = LF})
    /\ total_count =
          base_count * (1 + Len(prepend) + Len(append) + Len(extensions))

C15_Witness ==
    /\ pc = "done"
    /\ Len(FileLines(file, 0)) = 2 /\ base_count = 1
    /\ swap # <<>> /\ total_count = 4

(* C16: a failure of a line read ends the expansion with an error outcome  *)
(* that differs from the exhausted signal                                  *)
C16_ErrorDistinct == rd = "err" => ret # None

(* C17: on an empty file the first pull returns exhausted and nothing is   *)
(* ever produced, whatever the transformation set                          *)
C17_EmptyFile ==
    (file = <<>> /\ rd # "new") =>
        /\ rd = "eof" /\ ~ret.some
        /\ produced = <<>> /\ out = <<>> /\ count = 0

C17_Witness ==
    /\ file = <<>> /\ pc = "done" /\ extra = 0
    /\ prepend # <<>> /\ append # <<>> /\ swap # <<>> /\ extensions # <<>>

(* C18: a stage works on the entries the buffer held when it began: with   *)
(* list L it takes a buffer of length n to n * (1 + |L|), each new entry   *)
(* made from one of the first n, and with an empty list it changes nothing *)
StageOk(q0, q1, list, isPrepend) ==
    /\ Len(q1) = Len(q0) * (1 + Len(list))
    /\ Ws(q1) = RefStage(Ws(q0), list, isPrepend)
    /\ \A k \in 1..Len(q1) : q1[k].ln = lineno
    /\ list = <<>> => q1 = q0

C18_Snapshot ==
    Expanded =>
        LET q0 == SwapStage(<<>>, base_word, lineno, swap)
            q1 == PrependStage(q0, prepend)
            q2 == AppendStage(q1, append)
            q3 == ExtensionStage(q2, extensions)
        IN /\ StageOk(q0, q1, prepend, TRUE)
           /\ StageOk(q1, q2, append, FALSE)
           /\ StageOk(q2, q3, extensions, FALSE)
           /\ q3 = expanded

C18_Witness ==
    /\ Expanded /\ ~HasPlaceholder(base_word)
    /\ Len(prepend) = 2 /\ Len(append) = 2 /\ extensions = <<>>
    /\ Len(expanded) = 9

(* C19: a pull reads from the line source only when the buffer is empty,   *)
(* and then one line; the lines are consumed in file order, each once      *)
Consumed(n) == Len(Flat(SubSeq(FileLines(file, 0), 1, n)))

C19_SinglePass ==
    /\ [](/\ lineno <= Len(FileLines(file, 0))
          /\ pos = Consumed(lineno)
          /\ Expanded => base_word = Stripped(FileLines(file, 0)[lineno]))
    /\ [][/\ word_perms # <<>> =>
               (pos' = pos /\ lineno' = lineno /\ rd' = "none")
          /\ word_perms = <<>> =>
               IF pos = Len(file)
               THEN pos' = pos /\ lineno' = lineno /\ rd' = "eof"
               ELSE lineno' = lineno + 1 /\ pos' = Consumed(lineno + 1)]_vars

C19_Witness ==
    /\ rd = "none" /\ lineno = 2 /\ word_perms # <<>>
    /\ Len(produced) >= 4 /\ produced[1].ln = 1

(* C20: the buffer holds the permutations of the last base word read that  *)
(* are not yet returned, in order; its length is at most                   *)
(* max(1,|swap|) * (1+|prepend|) * (1+|append|) * (1+|extension|); a pull  *)
(* that returns an entry removes the front one and leaves the rest         *)
C20_Buffer ==
    /\ [](LET k == Len(expanded) - Len(word_perms)
          IN /\ \A i \in 1..Len(word_perms) : word_perms[i].ln = lineno
             /\ Len(word_perms) <=
                   (IF Len(swap) > 1 THEN Len(swap) ELSE 1) * Multiplier
             /\ Len(word_perms) <= Len(expanded)
             /\ word_perms = SubSeq(expanded, k + 1, Len(expanded))
             /\ Current =>
                   /\ Len(produced) >= k
                   /\ SubSeq(produced, Len(produced) - k + 1, Len(produced))
                         = SubSeq(expanded, 1, k))
    /\ [][ret'.some =>
             LET q == IF word_perms = <<>> THEN expanded' ELSE word_perms
             IN /\ ret'.val = q[1]
                /\ word_perms' = Tail(q)
                /\ produced' = Append(produced, q[1])]_vars

C20_Witness ==
    /\ rd = "none" /\ ret.some /\ lineno = 2
    /\ Len(word_perms) >= 2 /\ Len(swap) = 1 /\ HasPlaceholder(base_word)

(* C21: once a pull has returned None, every later pull returns None       *)
(* (stated for the files every line of which the reader reads as UTF-8)    *)
C21_ExhaustionTerminal ==
    [][(valid_utf8(file) /\ rd # "new" /\ ~ret.some) => ~ret'.some]_vars

\* the most entries the stages can leave in the buffer for one line
PerLine == (IF Len(swap) > 1 THEN Len(swap) ELSE 1) * Multiplier

\* a variant of the pulls: what is buffered, and what every unread byte
\* could still become
Rank == Len(word_perms) + (Len(file) - pos) * (PerLine + 1)

(* C22: every pull completes, its stages pushing a bounded number of       *)
(* entries, and pulling again and again returns None after finitely many   *)
(* pulls: no pull raises Rank, and a pull that yields a permutation        *)
(* lowers it                                                               *)
C22_Termination ==
    /\ [](Len(expanded) <= PerLine /\ Len(produced) + Rank <= Len(file) * (PerLine + 1))
    /\ [][Rank' <= Rank /\ (ret'.some => Rank' < Rank)]_vars

C22_Witness ==
    /\ pc = "done" /\ extra = 0 /\ ~ret.some
    /\ lineno = 2 /\ count = 16 /\ rd = "eof"

(* C23: no pull changes the prepend, append, swap or extension list, nor   *)
(* base_count, total_count or the file at path                             *)
C23_ReadOnly ==
    [][UNCHANGED <<args, file, base_count, total_count, prepend, append,
                   swap, extensions>>]_vars

C23_Witness ==
    /\ pc = "done" /\ extra >= 1 /\ lineno = 2 /\ count >= 8
    /\ prepend # <<>> /\ append # <<>> /\ swap # <<>> /\ extensions # <<>>
    /\ \E i \in 1..Len(produced) : produced[i].w # base_word /\ produced[i].ln = 1

=============================================================================
